---- MODULE Spec2Model ----
(***************************************************************************)
(* A model of src/src/model.rs: the in-memory TF-IDF index (InMemoryModel) *)
(* and the SQLite-backed index (SqliteModel).                              *)
(*                                                                         *)
(* The Lexer lives outside model.rs.  Everything model.rs does with a      *)
(* content or a query is done on the terms the Lexer yields, so a content  *)
(* and a query are given here as that finite sequence of terms.            *)
(*                                                                         *)
(* f32 values are modelled as records: a number in fixed point, a NaN or   *)
(* an infinity (v = its sign).  A term frequency m / n is held exactly in  *)
(* units of 1 / TfScale, log10 in units of 10^-6, a rank in units of their *)
(* product; rounding of the f32 arithmetic is not modelled.                *)
(***************************************************************************)
EXTENDS Integers, Sequences, FiniteSets, TLC

\* ---------------------------------------------------------------- bounds

MaxLen == 2        \* terms in one document's content
MaxQueryLen == 2   \* terms in one query
MaxAdds == 3       \* add_document calls on the InMemoryModel in one run

Keys == {"p1", "p2"}           \* file paths
Terms == {"a", "b"}            \* terms the Lexer can yield

RECURSIVE SeqsUpTo(_, _)
SeqsUpTo(S, n) ==
    IF n = 0 THEN {<<>>}
    ELSE LET shorter == SeqsUpTo(S, n - 1)
         IN shorter \cup {Append(s, x) : s \in {q \in shorter : Len(q) = n - 1}, x \in S}

Contents == SeqsUpTo(Terms, MaxLen)
Queries == SeqsUpTo(Terms, MaxQueryLen)

\* ------------------------------------------------------------------- f32

F(x) == [kind |-> "num", v |-> x]
NaN == [kind |-> "nan", v |-> 0]
Inf(sign) == [kind |-> "inf", v |-> sign]

Sign(x) == IF x > 0 THEN 1 ELSE IF x < 0 THEN -1 ELSE 0

RECURSIVE Fact(_)
Fact(n) == IF n <= 1 THEN 1 ELSE n * Fact(n - 1)

\* The fixed-point unit of a term frequency: every count 1..MaxLen divides it.
TfScale == Fact(MaxLen)

\* m as f32 / n as f32, for the non-negative integers the code divides.
FDiv(m, n) ==
    IF n = 0
    THEN IF m = 0 THEN NaN ELSE Inf(1)
    ELSE F((m * TfScale) \div n)

FMul(x, y) ==
    IF x.kind = "nan" \/ y.kind = "nan" THEN NaN
    ELSE IF x.kind = "inf" \/ y.kind = "inf"
         THEN IF Sign(x.v) * Sign(y.v) = 0 THEN NaN ELSE Inf(Sign(x.v) * Sign(y.v))
         ELSE F(x.v * y.v)

FAdd(x, y) ==
    IF x.kind = "nan" \/ y.kind = "nan" THEN NaN
    ELSE IF x.kind = "inf" /\ y.kind = "inf"
         THEN IF x.v = y.v THEN x ELSE NaN
         ELSE IF x.kind = "inf" THEN x
         ELSE IF y.kind = "inf" THEN y
         ELSE F(x.v + y.v)

\* f32::partial_cmp: None when either side is a NaN.
partial_cmp(x, y) ==
    IF x.kind = "nan" \/ y.kind = "nan" THEN "None"
    ELSE LET key(z) == IF z.kind = "inf" THEN <<z.v, 0>> ELSE <<0, z.v>>
             a == key(x)
             b == key(y)
         IN IF a[1] < b[1] \/ (a[1] = b[1] /\ a[2] < b[2]) THEN "Less"
            ELSE IF a = b THEN "Equal"
            ELSE "Greater"

\* 10^6 * log10(k), k = 1..16, rounded so that log10(a * b) = log10(a) + log10(b).
Log10Micro(k) ==
    <<0, 301030, 477121, 602060, 698970, 778151, 845098, 903090,
      954242, 1000000, 1041393, 1079181, 1113943, 1146128, 1176091, 1204120>>[k]

\* (n as f32 / m as f32).log10(): 0/0 is a NaN, n/0 is +inf, log10(0) is -inf.
Log10Ratio(n, m) ==
    IF m = 0 THEN (IF n = 0 THEN NaN ELSE Inf(1))
    ELSE IF n = 0 THEN Inf(-1)
    ELSE F(Log10Micro(n) - Log10Micro(m))

\* ---------------------------------------------------------- InMemoryModel

VARIABLES docs, df, nAdds, lastContent, query, result,
          db, pc, call, doc_id, pending, curTerm, freq, ret, overlapped

\* docs: the Docs map, file path -> Doc (tf: term -> count, count);
\* df: the DocFreq map; nAdds: add_document calls so far;
\* lastContent: the content each stored path was last added with;
\* query, result: the last search_query call and what it returned.
memVars == <<docs, df, nAdds, lastContent, query, result>>

\* db: the database file, table name -> rows; per writer: pc, where its
\* add_document call stands; call, the call's arguments; doc_id, pending (the
\* terms of tf the loop has yet to visit), curTerm (the loop's term), freq (the
\* doc_freq value read); ret, what its last call returned; overlapped: two
\* calls have been in progress at once.
sqlVars == <<db, pc, call, doc_id, pending, curTerm, freq, ret, overlapped>>

vars == <<memVars, sqlVars>>

Lookup(map, k, default) == IF k \in DOMAIN map THEN map[k] ELSE default

\* A scan that counts a term only when it is new to tf.
RECURSIVE ScanTerms_CountNewOnly(_, _)
ScanTerms_CountNewOnly(content, i) ==
    IF i = 0 THEN [tf |-> <<>>, count |-> 0]
    ELSE LET before == ScanTerms_CountNewOnly(content, i - 1)
             term == content[i]
         IN IF term \in DOMAIN before.tf
            THEN [tf |-> [before.tf EXCEPT ![term] = @ + 1], count |-> before.count]
            ELSE [tf |-> before.tf @@ (term :> 1), count |-> before.count + 1]

\* The scan of the Lexer's terms: tf and count after the first i terms.
RECURSIVE ScanTerms(_, _)
ScanTerms(content, i) ==
    IF i = 0 THEN [tf |-> <<>>, count |-> 0]
    ELSE LET before == ScanTerms(content, i - 1)
             term == content[i]
         IN [tf |-> IF term \in DOMAIN before.tf
                    THEN [before.tf EXCEPT ![term] = @ + 1]
                    ELSE before.tf @@ (term :> 1),
             count |-> before.count + 1]

NewDoc(content) == ScanTerms(content, Len(content))

\* A loop over tf.keys() that inserts 1 whether or not the term is present.
BumpDocFreq_AlwaysInsert(oldDf, keys) ==
    [t \in DOMAIN oldDf \cup keys |-> IF t \in keys THEN 1 ELSE oldDf[t]]

\* df after the loop over tf.keys().
BumpDocFreq(oldDf, keys) ==
    [t \in DOMAIN oldDf \cup keys |->
        IF t \in keys THEN Lookup(oldDf, t, 0) + 1 ELSE oldDf[t]]

InsertDoc(oldDocs, file_path, doc) ==
    [p \in DOMAIN oldDocs \cup {file_path} |->
        IF p = file_path THEN doc ELSE oldDocs[p]]

\* An add_document that first retracts the replaced document's terms from df.
InMemoryModel_add_document_Retracting(m, file_path, content) ==
    LET doc == NewDoc(content)
        old == IF file_path \in DOMAIN m.docs THEN DOMAIN m.docs[file_path].tf ELSE {}
        kept == [t \in {u \in DOMAIN m.df : ~(u \in old /\ m.df[u] = 1)} |->
                    IF t \in old THEN m.df[t] - 1 ELSE m.df[t]]
    IN [docs |-> InsertDoc(m.docs, file_path, doc),
        df |-> BumpDocFreq(kept, DOMAIN doc.tf)]

InMemoryModel_add_document(m, file_path, content) ==
    LET doc == NewDoc(content)
    IN [docs |-> InsertDoc(m.docs, file_path, doc),
        df |-> BumpDocFreq(m.df, DOMAIN doc.tf)]

compute_tf(t, doc) == FDiv(Lookup(doc.tf, t, 0), doc.count)

\* An idf smoothed by one more document.
compute_idf_Smoothed(t, n, dfm) == Log10Ratio(n + 1, Lookup(dfm, t, 1))

\* An idf that takes the df of an absent term as 0.
compute_idf_DefaultZero(t, n, dfm) == Log10Ratio(n, Lookup(dfm, t, 0))

compute_idf(t, n, dfm) == Log10Ratio(n, Lookup(dfm, t, 1))

\* rank after the first i tokens of the query.
RECURSIVE Rank(_, _, _, _)
Rank(m, doc, tokens, i) ==
    IF i = 0 THEN F(0)
    ELSE FAdd(Rank(m, doc, tokens, i - 1),
              FMul(compute_tf(tokens[i], doc),
                   compute_idf(tokens[i], Cardinality(DOMAIN m.docs), m.df)))

\* A result left in the ascending order of the sort.
Reverse_Forgotten(s) == s

Reverse(s) == [i \in 1..Len(s) |-> s[Len(s) + 1 - i]]

\* One insertion of a stable ascending sort: e goes after every entry that
\* does not compare Greater than it.
RECURSIVE InsertSorted(_, _)
InsertSorted(sorted, e) ==
    IF sorted = <<>> THEN <<e>>
    ELSE IF partial_cmp(sorted[Len(sorted)].rank, e.rank) = "Greater"
         THEN Append(InsertSorted(SubSeq(sorted, 1, Len(sorted) - 1), e),
                     sorted[Len(sorted)])
         ELSE Append(sorted, e)

RECURSIVE SortAscending(_, _)
SortAscending(s, i) ==
    IF i = 0 THEN <<>> ELSE InsertSorted(SortAscending(s, i - 1), s[i])

\* result.sort_by(|..| rank1.partial_cmp(rank2).unwrap()): a slice of two or
\* more entries has every entry compared, and unwrap panics on a NaN.
SortPanics(s) == Len(s) >= 2 /\ \E i \in 1..Len(s) : s[i].rank.kind = "nan"

\* order: the order in which the HashMap iteration visits the documents.
InMemoryModel_search_query(m, tokens, order) ==
    LET pushed == [i \in 1..Len(order) |->
                      [path |-> order[i],
                       rank |-> Rank(m, m.docs[order[i]], tokens, Len(tokens))]]
    IN IF SortPanics(pushed)
       THEN [kind |-> "panic", list |-> <<>>]
       ELSE [kind |-> "ok", list |-> Reverse(SortAscending(pushed, Len(pushed)))]

Orders(S) == {s \in [1..Cardinality(S) -> S] : \A i, j \in DOMAIN s : i # j => s[i] # s[j]}

Model == [docs |-> docs, df |-> df]

NoResult == [kind |-> "none", list |-> <<>>]

InitMem ==
    /\ docs = <<>>
    /\ df = <<>>
    /\ nAdds = 0
    /\ lastContent = <<>>
    /\ query = <<>>
    /\ result = NoResult

\* The effect of InMemoryModel::add_document on the InMemoryModel's state.
AddDocumentEffect(file_path, content) ==
    /\ nAdds < MaxAdds
    /\ LET after == InMemoryModel_add_document(Model, file_path, content)
       IN /\ docs' = after.docs
          /\ df' = after.df
    /\ nAdds' = nAdds + 1
    /\ lastContent' = InsertDoc(lastContent, file_path, content)
    /\ query' = <<>>
    /\ result' = NoResult

AddDocument(file_path, content) ==
    /\ AddDocumentEffect(file_path, content)
    /\ UNCHANGED sqlVars

SearchQuery(tokens, order) ==
    /\ query' = tokens
    /\ result' = InMemoryModel_search_query(Model, tokens, order)
    /\ UNCHANGED <<docs, df, nAdds, lastContent>>
    /\ UNCHANGED sqlVars

NextMem ==
    \/ \E file_path \in Keys, content \in Contents : AddDocument(file_path, content)
    \/ \E tokens \in Queries, order \in Orders(DOMAIN docs) : SearchQuery(tokens, order)

\* ------------------------------------------------------------ SqliteModel
\* Each writer is a SqliteModel of its own (one connection) on the same
\* database file.  add_document runs outside any transaction, so each of its
\* statements is one atomic step.  Failures of the storage itself (I/O, a
\* busy database) are not modelled.

Writers == {"w1", "w2"}

\* The tables migrate creates when they are absent (CREATE TABLE IF NOT EXISTS).
migrate(file) ==
    [t \in DOMAIN file \cup {"documents", "term_freq", "doc_freq"} |->
        IF t \in DOMAIN file THEN file[t] ELSE {}]

\* SqliteModel::open on a new file, and on a file that already holds a table
\* named document with the columns and constraints of documents.
NewFile == <<>>
FileWithDocumentTable == [document |-> {}]

\* The table the INSERT of add_document names.
InsertedTable == "document"

\* prepare fails on a statement that names a table the database does not hold.
Prepares(table) == table \in DOMAIN db

\* The rowid SQLite gives a new row of an INTEGER PRIMARY KEY table.
RECURSIVE MaxId(_)
MaxId(rows) ==
    IF rows = {} THEN 0
    ELSE LET r == CHOOSE x \in rows : TRUE
             rest == MaxId(rows \ {r})
         IN IF r.id > rest THEN r.id ELSE rest

\* What the statement of lines 159-175 leaves in doc_id: the first next()
\* steps over the row RETURNING yields, the second one reports Done.
ReturnedId(inserted_id) == 0

\* The tf of lines 178-185.
TermFreqOf(content) == NewDoc(content).tf

Busy(w) == pc[w] \in {"term_freq", "select", "replace"}

Finish(w, value) ==
    /\ pc' = [pc EXCEPT ![w] = "done"]
    /\ ret' = [ret EXCEPT ![w] = value]

\* Lines 156-186: the INSERT of the document row, then tf.
SqliteModel_InsertDocument(w, file_path, content) ==
    /\ ~Busy(w)
    /\ call' = [call EXCEPT ![w] = [path |-> file_path, content |-> content]]
    /\ overlapped' = (overlapped \/ \E v \in Writers \ {w} : Busy(v))
    /\ curTerm' = [curTerm EXCEPT ![w] = ""]
    /\ freq' = [freq EXCEPT ![w] = 0]
    /\ IF ~Prepares(InsertedTable)
       THEN /\ Finish(w, "Err")
            /\ UNCHANGED <<db, doc_id, pending>>
       ELSE IF \E r \in db[InsertedTable] : r.path = file_path
       THEN /\ Finish(w, "Err")
            /\ UNCHANGED <<db, doc_id, pending>>
       ELSE LET id == MaxId(db[InsertedTable]) + 1
                row == [id |-> id, path |-> file_path, term_count |-> Len(content)]
            IN /\ db' = [db EXCEPT ![InsertedTable] = @ \cup {row}]
               /\ doc_id' = [doc_id EXCEPT ![w] = ReturnedId(id)]
               /\ pending' = [pending EXCEPT ![w] = DOMAIN TermFreqOf(content)]
               /\ IF TermFreqOf(content) = <<>>
                  THEN Finish(w, "Ok")
                  ELSE /\ pc' = [pc EXCEPT ![w] = "term_freq"]
                       /\ ret' = [ret EXCEPT ![w] = "none"]

\* The call as both backends see it: the SqliteModel starts on it, the
\* InMemoryModel is given the same call.
SqlAddDocument(w, file_path, content) ==
    /\ SqliteModel_InsertDocument(w, file_path, content)
    /\ AddDocumentEffect(file_path, content)

\* Lines 187-200: the loop takes a term of tf (in hash order) and inserts its
\* term_freq row, which UNIQUE(term, doc_id) may refuse.
InsertTermFreq(w, t) ==
    /\ pc[w] = "term_freq"
    /\ t \in pending[w]
    /\ curTerm' = [curTerm EXCEPT ![w] = t]
    /\ IF \E r \in db["term_freq"] : r.term = t /\ r.doc_id = doc_id[w]
       THEN /\ Finish(w, "Err")
            /\ UNCHANGED db
       ELSE /\ db' = [db EXCEPT !["term_freq"] = @ \cup
                         {[term |-> t, doc_id |-> doc_id[w],
                           freq |-> TermFreqOf(call[w].content)[t]]}]
            /\ pc' = [pc EXCEPT ![w] = "select"]
            /\ UNCHANGED ret
    /\ UNCHANGED <<call, doc_id, pending, freq, overlapped, memVars>>

\* Lines 203-216: SELECT freq FROM doc_freq, 0 when there is no row.
SelectDocFreq(w) ==
    /\ pc[w] = "select"
    /\ LET rows == {r \in db["doc_freq"] : r.term = curTerm[w]}
       IN freq' = [freq EXCEPT ![w] =
                      IF rows = {} THEN 0 ELSE (CHOOSE r \in rows : TRUE).freq]
    /\ pc' = [pc EXCEPT ![w] = "replace"]
    /\ UNCHANGED <<db, call, doc_id, pending, curTerm, ret, overlapped, memVars>>

\* Lines 219-229: INSERT OR REPLACE of freq + 1, then the next term, or Ok.
ReplaceDocFreq(w) ==
    /\ pc[w] = "replace"
    /\ db' = [db EXCEPT !["doc_freq"] =
                 {r \in @ : r.term # curTerm[w]} \cup
                 {[term |-> curTerm[w], freq |-> freq[w] + 1]}]
    /\ pending' = [pending EXCEPT ![w] = @ \ {curTerm[w]}]
    /\ IF pending[w] \ {curTerm[w]} = {}
       THEN Finish(w, "Ok")
       ELSE /\ pc' = [pc EXCEPT ![w] = "term_freq"]
            /\ UNCHANGED ret
    /\ UNCHANGED <<call, doc_id, curTerm, freq, overlapped, memVars>>

InitSqlWriters ==
    /\ pc = [w \in Writers |-> "idle"]
    /\ call = [w \in Writers |-> [path |-> "", content |-> <<>>]]
    /\ doc_id = [w \in Writers |-> 0]
    /\ pending = [w \in Writers |-> {}]
    /\ curTerm = [w \in Writers |-> ""]
    /\ freq = [w \in Writers |-> 0]
    /\ ret = [w \in Writers |-> "none"]
    /\ overlapped = FALSE

\* The InMemoryModel alone; the database is a new file nobody writes to.
Init ==
    /\ InitMem
    /\ db = migrate(NewFile)
    /\ InitSqlWriters

Spec == Init /\ [][NextMem]_vars

InitSql ==
    /\ InitMem
    /\ db \in {migrate(NewFile), migrate(FileWithDocumentTable)}
    /\ InitSqlWriters

NextSql ==
    \/ \E w \in Writers, file_path \in Keys, content \in Contents :
           SqlAddDocument(w, file_path, content)
    \/ \E w \in Writers, t \in Terms : InsertTermFreq(w, t)
    \/ \E w \in Writers : SelectDocFreq(w)
    \/ \E w \in Writers : ReplaceDocFreq(w)

SpecSql == InitSql /\ [][NextSql]_vars

\* ------------------------------------------------- InMemoryModel: properties

N == Cardinality(DOMAIN docs)

\* Every add_document call so far was for a path not yet stored.
DistinctKeys == nAdds = N

DocsContaining(t) == {p \in DOMAIN docs : t \in DOMAIN docs[p].tf}

Occurrences(content, t) == Cardinality({i \in 1..Len(content) : content[i] = t})

\* The document a content stands for, stated without the scan.
DocOfContent(content) ==
    [tf |-> [t \in {content[i] : i \in 1..Len(content)} |-> Occurrences(content, t)],
     count |-> Len(content)]

RECURSIVE SumOver(_, _)
SumOver(f, S) ==
    IF S = {} THEN 0
    ELSE LET x == CHOOSE y \in S : TRUE IN f[x] + SumOver(f, S \ {x})

Searched == result.kind # "none"

\* C1: after add_document calls with pairwise distinct paths, df[t] is the
\* number of stored documents whose tf holds t, and a term that no document
\* holds has no df entry.
C1_DocFreqCountsDocuments ==
    DistinctKeys =>
        \A t \in Terms :
            IF DocsContaining(t) = {}
            THEN t \notin DOMAIN df
            ELSE t \in DOMAIN df /\ df[t] = Cardinality(DocsContaining(t))

C1_Witness ==
    /\ DistinctKeys
    /\ N = 2
    /\ \E t \in Terms : t \in DOMAIN df /\ df[t] = 2
    /\ \E t \in Terms : Lookup(df, t, 0) < 2

\* C2: in every reachable state, re-insertions included, each stored
\* document's tf values sum to its count, its count is the number of terms of
\* the content it was last added with, and every tf value is at least 1.
C2_TfSumsToCount ==
    \A p \in DOMAIN docs :
        /\ SumOver(docs[p].tf, DOMAIN docs[p].tf) = docs[p].count
        /\ docs[p].count = Len(lastContent[p])
        /\ \A t \in DOMAIN docs[p].tf : docs[p].tf[t] >= 1

C2_Witness ==
    /\ nAdds > N
    /\ \E p \in DOMAIN docs : \E t \in DOMAIN docs[p].tf :
           docs[p].tf[t] = 2 /\ docs[p].count = 2

\* C3: a list that search_query returns is in descending order of score:
\* each entry's score is greater than or equal to the next entry's.
C3_ResultsSortedDescending ==
    result.kind = "ok" =>
        \A i \in 1..(Len(result.list) - 1) :
            partial_cmp(result.list[i].rank, result.list[i + 1].rank)
                \in {"Greater", "Equal"}

C3_Witness ==
    /\ result.kind = "ok"
    /\ Len(result.list) = 2
    /\ partial_cmp(result.list[1].rank, result.list[2].rank) = "Greater"
    /\ result.list[2].rank # F(0)

SharesNoTerm(p) == \A i \in 1..Len(query) : query[i] \notin DOMAIN docs[p].tf

\* C4: search_query returns Ok with exactly one pair per stored path and no
\* other pair, whatever the query, and a document that shares no term with
\* the query is listed with score 0.
C4_OnePairPerDocument ==
    Searched =>
        /\ result.kind = "ok"
        /\ Len(result.list) = N
        /\ {result.list[i].path : i \in 1..Len(result.list)} = DOMAIN docs
        /\ \A i \in 1..Len(result.list) :
               SharesNoTerm(result.list[i].path) => result.list[i].rank = F(0)

\* C5: a document whose count is 0 has term frequency 0 for every term, and
\* a search over a corpus that holds such a document completes and gives that
\* document score 0.
C5_ZeroCountScoresZero ==
    \A p \in DOMAIN docs :
        docs[p].count = 0 =>
            /\ \A t \in Terms : compute_tf(t, docs[p]) = F(0)
            /\ Searched =>
                   /\ result.kind = "ok"
                   /\ \A i \in 1..Len(result.list) :
                          result.list[i].path = p => result.list[i].rank = F(0)

Without(tokens, t) == SelectSeq(tokens, LAMBDA u : u # t)

\* C6: in a corpus of N >= 1 documents added under pairwise distinct paths, a
\* query term held by all N documents has df = N and idf 0, and adds exactly 0
\* to every document's rank: the ranks returned are those of the query
\* without that term.
C6_TermInAllDocsAddsZero ==
    (Searched /\ DistinctKeys /\ N >= 1) =>
        \A t \in {query[i] : i \in 1..Len(query)} :
            DocsContaining(t) = DOMAIN docs =>
                /\ df[t] = N
                /\ compute_idf(t, N, df) = F(0)
                /\ \A p \in DOMAIN docs :
                       FMul(compute_tf(t, docs[p]), compute_idf(t, N, df)) = F(0)
                /\ result.kind = "ok"
                /\ \A i \in 1..Len(result.list) :
                       result.list[i].rank =
                           Rank(Model, docs[result.list[i].path], Without(query, t),
                                Len(Without(query, t)))

C6_Witness ==
    /\ Searched /\ DistinctKeys /\ N = 2
    /\ \E t \in {query[i] : i \in 1..Len(query)} :
           /\ DocsContaining(t) = DOMAIN docs
           /\ \E p, q \in DOMAIN docs : docs[p].tf[t] = 2 /\ docs[q].tf[t] = 1
    /\ result.kind = "ok"
    /\ \E i \in 1..Len(result.list) : result.list[i].rank # F(0)

\* C7: with N documents stored, compute_idf of a term absent from df is
\* log10(N / 1) = log10(N), and of a term in df it is log10(N / df[t]).
C7_IdfDefaultsDfToOne ==
    N >= 1 =>
        \A t \in Terms :
            compute_idf(t, N, df) =
                IF t \in DOMAIN df
                THEN F(Log10Micro(N) - Log10Micro(df[t]))
                ELSE F(Log10Micro(N))

C7_Witness ==
    /\ Searched /\ N = 2
    /\ \E t, u \in {query[i] : i \in 1..Len(query)} :
           /\ t \notin DOMAIN df
           /\ compute_idf(t, N, df) = F(301030)
           /\ u \in DOMAIN df /\ df[u] = 3
           /\ compute_idf(u, N, df) = F(301030 - 477121)

\* C9: add_document under a path already stored replaces that document's tf
\* and count by those of the new content and keeps the number of documents,
\* and adds 1 to df for each distinct term of the new content and nothing
\* else; no step ever lowers a df entry or removes one.
C9_ReinsertionRetractsNothing ==
    [][/\ \A t \in DOMAIN df : t \in DOMAIN df' /\ df'[t] >= df[t]
       /\ (nAdds' = nAdds + 1 /\ DOMAIN docs' = DOMAIN docs) =>
              \E p \in DOMAIN docs :
                  /\ \A q \in DOMAIN docs \ {p} : docs'[q] = docs[q]
                  /\ docs'[p] = DocOfContent(lastContent'[p])
                  /\ Cardinality(DOMAIN docs') = Cardinality(DOMAIN docs)
                  /\ \A t \in Terms :
                         Lookup(df', t, 0) =
                             Lookup(df, t, 0)
                               + (IF Occurrences(lastContent'[p], t) > 0 THEN 1 ELSE 0)
      ]_vars

\* After a re-insertion df[t] exceeds both the number of documents that hold
\* t and the number of documents.
C9_Witness ==
    /\ nAdds > N
    /\ \E t \in DOMAIN df : df[t] > Cardinality(DocsContaining(t)) /\ df[t] > N

\* ---------------------------------------------------- SqliteModel: properties

Quiescent == \A w \in Writers : ~Busy(w)

Rows(table) == IF table \in DOMAIN db THEN db[table] ELSE {}

\* doc_freq as a map, term -> freq.
DocFreqTable ==
    [t \in {r.term : r \in Rows("doc_freq")} |->
        (CHOOSE r \in Rows("doc_freq") : r.term = t).freq]

\* C8: after add_document calls made one after the other with pairwise
\* distinct paths, every call has returned Ok, documents holds one row per
\* path with term_count the number of terms, term_freq holds one row per
\* document and distinct term of it with the curTerm's count, under the
\* document's id, and doc_freq equals the df of the InMemoryModel given the
\* same calls.
C8_TablesMatchInMemory ==
    (Quiescent /\ ~overlapped /\ DistinctKeys) =>
        /\ \A w \in Writers : ret[w] # "Err"
        /\ {[path |-> r.path, term_count |-> r.term_count] : r \in Rows("documents")}
               = {[path |-> p, term_count |-> docs[p].count] : p \in DOMAIN docs}
        /\ \A r, q \in Rows("documents") : r.id = q.id => r = q
        /\ \A r \in Rows("documents") :
               {[term |-> x.term, freq |-> x.freq] :
                    x \in {y \in Rows("term_freq") : y.doc_id = r.id}}
                   = {[term |-> t, freq |-> docs[r.path].tf[t]] :
                          t \in DOMAIN docs[r.path].tf}
        /\ Cardinality(Rows("term_freq"))
               = SumOver([p \in DOMAIN docs |-> Cardinality(DOMAIN docs[p].tf)],
                         DOMAIN docs)
        /\ DocFreqTable = df

\* C10: the doc_freq update is a read followed by a write of the value read
\* plus 1, so writers adding different documents lose an increment only by
\* interleaving: doc_freq[t] never exceeds the number of documents added
\* that hold t, and after calls made one after the other it equals it.
C10_NoIncrementLostInSequence ==
    (Quiescent /\ DistinctKeys) =>
        \A t \in Terms :
            /\ Lookup(DocFreqTable, t, 0) <= Lookup(df, t, 0)
            /\ ~overlapped => Lookup(DocFreqTable, t, 0) = Lookup(df, t, 0)

====
